---- MODULE Spec2Model ----
(***************************************************************************)
(* Model of the Vibe VS Code extension's structural text analysis:         *)
(*   - the outline builder (VibeDocumentSymbolProvider)                    *)
(*   - the diagnostic locator (the execFile callback of runDiagnostics,    *)
(*     and the on-save fallback of the LSP-aware variant)                  *)
(*   - the diagnostics lifecycle (save / open / close events against the   *)
(*     completion callbacks of interpreter runs in flight)                 *)
(* Strings are sequences of one-character strings, so that the regular     *)
(* expressions of the source are modelled by what they match.              *)
(***************************************************************************)
EXTENDS Integers, Sequences, FiniteSets, TLC

VARIABLES
    \* ---- diagnostic locator: one execFile callback ----
    variant,        \* "standalone" (part_000) or "lsp" (src/extension.ts fallback)
    error,          \* callback argument: the run failed (non-null error)
    stderr,         \* callback argument: captured standard error
    errorLines,     \* stderr.split("\n")
    k,              \* position of the for-of loop in errorLines (1-based)
    diagnostics,    \* const diagnostics: vscode.Diagnostic[]
    lpc,            \* position of the callback: "idle", "callback", "loop", "done"
    \* ---- outline builder: one provideDocumentSymbols call ----
    lines,          \* text.split("\n")
    i,              \* loop index (0-based, as in the source)
    nodes,          \* arena of the DocumentSymbol objects created so far
    symbols,        \* top-level result array (ids into nodes)
    blockStack,     \* stack of [symbol |-> id, depth |-> n]
    depth,          \* let depth
    opc,            \* "scan" or "done"
    \* ---- diagnostics lifecycle (standalone variant) ----
    collection,     \* diagnosticCollection: uri -> diagnostics (partial function)
    runs,           \* history: every interpreter run triggered, in trigger order
    inflight,       \* ids (positions in runs) of the runs not yet completed
    enableDiagnostics, \* vibe.enableDiagnostics
    closed,         \* per document: close handled, not opened or saved since
    cleared,        \* per document: entry deleted since its latest run was triggered
    \* ---- activation (LSP-aware variant) ----
    apc,            \* position of activate: "idle" (not followed), "start", "probe",
                    \* "lsp", "nolsp", "done"; "deactivated" once deactivate has run
    client,         \* let client: "undefined", "started", or "stopped" by deactivate
    registered,     \* what activate has registered with the host so far
    installed       \* where a vibe-lsp binary is found: on the PATH, under ~/.vibe/bin

locVars == <<variant, error, stderr, errorLines, k, diagnostics, lpc>>
outVars == <<lines, i, nodes, symbols, blockStack, depth, opc>>
lifeVars == <<collection, runs, inflight, enableDiagnostics, closed, cleared>>
actVars == <<apc, client, registered, installed>>
vars == <<locVars, outVars, lifeVars, actVars>>

\* no activation of the LSP-aware variant is under way
ActIdle == apc = "idle" /\ client = "undefined" /\ registered = {} /\ installed = {}

-----------------------------------------------------------------------------
(* Characters and the character classes of JavaScript regular expressions. *)

UpperChars == {"A","B","C","D","E","F","G","H","I","J","K","L","M",
               "N","O","P","Q","R","S","T","U","V","W","X","Y","Z"}
LowerChars == {"a","b","c","d","e","f","g","h","i","j","k","l","m",
               "n","o","p","q","r","s","t","u","v","w","x","y","z"}
DigitChars == {"0","1","2","3","4","5","6","7","8","9"}

\* ECMAScript LineTerminator: LF, CR, LINE SEPARATOR, PARAGRAPH SEPARATOR.
\* A code point that cannot stand in a string literal of this module is
\* the one-character string named by its code point.
LineTerminatorChars == {"\n", "\r", "U+2028", "U+2029"}
\* ECMAScript WhiteSpace: TAB, VT (U+000B), FF, SP, NBSP (U+00A0),
\* ZWNBSP (U+FEFF) and the other space separators of Unicode (Zs)
WhiteSpaceChars ==
    {"\t", "", "\f", " ", " ", "﻿", " ",
     "U+2000", "U+2001", "U+2002", "U+2003", "U+2004", "U+2005",
     "U+2006", "U+2007", "U+2008", "U+2009", "U+200A",
     "U+202F", "U+205F", "U+3000"}
\* \s, and the characters String.prototype.trim strips
IsSpace(c) == c \in WhiteSpaceChars \cup LineTerminatorChars
\* the line terminators that "." does not match
IsLineTerminator(c) == c \in LineTerminatorChars
\* \d
IsDigit(c) == c \in DigitChars
\* \w
IsWord(c) == c \in UpperChars \cup LowerChars \cup DigitChars \cup {"_"}

DigitValue(c) ==
    CASE c = "0" -> 0 [] c = "1" -> 1 [] c = "2" -> 2 [] c = "3" -> 3
      [] c = "4" -> 4 [] c = "5" -> 5 [] c = "6" -> 6 [] c = "7" -> 7
      [] c = "8" -> 8 [] c = "9" -> 9

UpperSeq == <<"A","B","C","D","E","F","G","H","I","J","K","L","M",
              "N","O","P","Q","R","S","T","U","V","W","X","Y","Z">>
LowerSeq == <<"a","b","c","d","e","f","g","h","i","j","k","l","m",
              "n","o","p","q","r","s","t","u","v","w","x","y","z">>
\* the /i flag: canonical lower-case form of an ASCII letter
ToLower(c) ==
    IF c \in UpperChars
    THEN LowerSeq[CHOOSE j \in 1..26 : UpperSeq[j] = c]
    ELSE c

Max(a, b) == IF a >= b THEN a ELSE b

\* s.slice(from - 1, to) with 1-based inclusive bounds; empty when from > to
Slice(s, from, to) == IF from > to THEN <<>> ELSE SubSeq(s, from, to)

RECURSIVE Flatten(_)
Flatten(ss) == IF ss = <<>> THEN <<>> ELSE Head(ss) \o Flatten(Tail(ss))

\* the first position >= p of s whose character does not satisfy the class,
\* Len(s) + 1 when there is none: where a greedy X* started at p stops
RECURSIVE SkipSpace(_, _)
SkipSpace(s, p) ==
    IF p <= Len(s) /\ IsSpace(s[p]) THEN SkipSpace(s, p + 1) ELSE p
RECURSIVE SkipDigits(_, _)
SkipDigits(s, p) ==
    IF p <= Len(s) /\ IsDigit(s[p]) THEN SkipDigits(s, p + 1) ELSE p
RECURSIVE SkipWord(_, _)
SkipWord(s, p) ==
    IF p <= Len(s) /\ IsWord(s[p]) THEN SkipWord(s, p + 1) ELSE p
RECURSIVE SkipToTerminator(_, _)
SkipToTerminator(s, p) ==
    IF p <= Len(s) /\ ~IsLineTerminator(s[p]) THEN SkipToTerminator(s, p + 1) ELSE p

\* the last position of s that is not white space, 0 when there is none
RECURSIVE LastNonSpace(_, _)
LastNonSpace(s, p) ==
    IF p >= 1 /\ IsSpace(s[p]) THEN LastNonSpace(s, p - 1) ELSE p

\* String.prototype.trim
Trim(s) == Slice(s, SkipSpace(s, 1), LastNonSpace(s, Len(s)))

\* String.prototype.split("\n"): always at least one piece
RECURSIVE SplitFrom(_, _, _)
SplitFrom(s, p, start) ==
    IF p > Len(s) THEN << Slice(s, start, Len(s)) >>
    ELSE IF s[p] = "\n"
         THEN << Slice(s, start, p - 1) >> \o SplitFrom(s, p + 1, p + 1)
         ELSE SplitFrom(s, p + 1, start)
SplitLines(s) == SplitFrom(s, 1, 1)

\* s has the literal lit at position p
HasAt(s, p, lit) ==
    /\ p >= 1
    /\ p + Len(lit) - 1 <= Len(s)
    /\ \A j \in 1..Len(lit) : s[p + j - 1] = lit[j]

\* String.prototype.indexOf (0-based; -1 when absent)
IndexOf(s, sub) ==
    LET hits == { p \in 1..(Len(s) + 1) : HasAt(s, p, sub) }
    IN  IF hits = {} THEN -1
        ELSE (CHOOSE p \in hits : \A q \in hits : p <= q) - 1

(* JavaScript numbers. parseInt returns a double: a number below 2^31 is the
   integer itself, a larger one is written as the decimal digits of the double
   (exact to 2^53, the nearest double with ties to even beyond), Infinity from
   2^1024 - 2^970 on, and NaN when there is no digit. *)
DigitSeq == <<"0", "1", "2", "3", "4", "5", "6", "7", "8", "9">>
DigitChar(n) == DigitSeq[n + 1]
Infinity == <<"Infinity">>
NaN == <<"NaN">>
\* 2^31 - 1 and 2^53 in decimal digits
MaxInt32 == <<"2","1","4","7","4","8","3","6","4","7">>
TwoTo53 == <<"9","0","0","7","1","9","9","2","5","4","7","4","0","9","9","2">>

\* the digits without their leading zeros (one digit is always kept)
StripZeros(ds) ==
    LET nz == { j \in 1..Len(ds) : ds[j] # "0" }
    IN  IF nz = {} THEN (IF ds = <<>> THEN <<>> ELSE <<"0">>)
        ELSE SubSeq(ds, CHOOSE j \in nz : \A q \in nz : j <= q, Len(ds))

\* a < b for decimal numbers without leading zeros
DecLess(a, b) ==
    \/ Len(a) < Len(b)
    \/ /\ Len(a) = Len(b)
       /\ \E j \in 1..Len(a) :
            /\ DigitValue(a[j]) < DigitValue(b[j])
            /\ \A q \in 1..(j - 1) : a[q] = b[q]

\* the value of at most ten digits that stay below 2^31
RECURSIVE ToInt(_)
ToInt(ds) ==
    IF ds = <<>> THEN 0
    ELSE 10 * ToInt(SubSeq(ds, 1, Len(ds) - 1)) + DigitValue(ds[Len(ds)])
FitsInt(n) == ~DecLess(MaxInt32, n)

\* long division of the digits ds, with carry in front, by d <= 2^26:
\* the quotient digits and the remainder
RECURSIVE DivRem(_, _, _)
DivRem(ds, d, carry) ==
    IF ds = <<>> THEN [q |-> <<>>, r |-> carry]
    ELSE IF Len(ds) = 1
    THEN LET v == 10 * carry + DigitValue(ds[1])
         IN  [q |-> <<DigitChar(v \div d)>>, r |-> v % d]
    ELSE LET h == Len(ds) \div 2
             left == DivRem(SubSeq(ds, 1, h), d, carry)
             right == DivRem(SubSeq(ds, h + 1, Len(ds)), d, left.r)
         IN  [q |-> left.q \o right.q, r |-> right.r]
\* long multiplication of the digits ds by f <= 2^26, plus carry:
\* the product's last Len(ds) digits and the carry out
RECURSIVE MulCarry(_, _, _)
MulCarry(ds, f, carry) ==
    IF ds = <<>> THEN [p |-> <<>>, c |-> carry]
    ELSE IF Len(ds) = 1
    THEN LET v == f * DigitValue(ds[1]) + carry
         IN  [p |-> <<DigitChar(v % 10)>>, c |-> v \div 10]
    ELSE LET h == Len(ds) \div 2
             right == MulCarry(SubSeq(ds, h + 1, Len(ds)), f, carry)
         IN  IF right.c < 0 THEN right     \* never: the right half goes first
             ELSE LET left == MulCarry(SubSeq(ds, 1, h), f, right.c)
                  IN  [p |-> left.p \o right.p, c |-> left.c]
RECURSIVE Digits(_)
Digits(n) == IF n = 0 THEN <<>> ELSE Digits(n \div 10) \o <<DigitChar(n % 10)>>
Times(n, f) == LET m == MulCarry(n, f, 0) IN StripZeros(Digits(m.c) \o m.p)

\* n + 1 and, for n > 0, n - 1
Increment(n) ==
    LET below == { j \in 1..Len(n) : n[j] # "9" }
        p == IF below = {} THEN 0 ELSE CHOOSE j \in below : \A q \in below : q <= j
    IN  (IF p = 0 THEN <<"1">>
         ELSE SubSeq(n, 1, p - 1) \o <<DigitChar(DigitValue(n[p]) + 1)>>)
        \o [j \in 1..(Len(n) - p) |-> "0"]
Decrement(n) ==
    LET above == { j \in 1..Len(n) : n[j] # "0" }
        p == CHOOSE j \in above : \A q \in above : q <= j
    IN  StripZeros(SubSeq(n, 1, p - 1) \o <<DigitChar(DigitValue(n[p]) - 1)>>
                   \o [j \in 1..(Len(n) - p) |-> "9"])
IsOdd(n) == DigitValue(n[Len(n)]) % 2 = 1

\* how many bits of n can be dropped at once with 2^53 <= n still true after:
\* 10^24 > 2^79, 10^20 > 2^66, 10^17 > 2^56
DropBits(n) ==
    IF Len(n) >= 25 THEN 26 ELSE IF Len(n) >= 21 THEN 13
    ELSE IF Len(n) >= 18 THEN 3 ELSE 1
\* n shifted right until it is a 53-bit significand m: the exponent e, the
\* last bit dropped (round) and whether an earlier dropped bit was set (sticky)
RECURSIVE Significand(_)
Significand(f) ==
    IF DecLess(f.m, TwoTo53) THEN f
    ELSE LET b == DropBits(f.m)
             d == DivRem(f.m, 2^b, 0)
         IN  IF b = 1
             THEN Significand([m |-> StripZeros(d.q), e |-> f.e + 1,
                               round |-> d.r = 1, sticky |-> f.sticky \/ f.round])
             ELSE Significand([m |-> StripZeros(d.q), e |-> f.e + b,
                               round |-> FALSE,
                               sticky |-> f.sticky \/ f.round \/ d.r # 0])
\* m * 2^e
RECURSIVE Scale(_, _)
Scale(m, e) ==
    IF e = 0 \/ m = <<>> THEN m
    ELSE IF e >= 26 THEN Scale(Times(m, 2^26), e - 26)
    ELSE Times(m, 2^e)

\* the double nearest to the integer n, ties to even (10^309 > 2^1024)
NearestDouble(n) ==
    IF Len(n) > 309 THEN Infinity
    ELSE LET f == Significand([m |-> n, e |-> 0, round |-> FALSE, sticky |-> FALSE])
             m == IF f.round /\ (f.sticky \/ IsOdd(f.m)) THEN Increment(f.m) ELSE f.m
         IN  IF f.e > 971 \/ (f.e = 971 /\ m = TwoTo53) THEN Infinity
             ELSE Scale(m, f.e)

\* a number given by its digits, as this module writes it
Number(n) == IF n = Infinity \/ n = NaN THEN n ELSE IF FitsInt(n) THEN ToInt(n) ELSE n

\* parseInt of a string of decimal digits, as digits
ParseDigits(ds) == IF ds = <<>> THEN NaN ELSE NearestDouble(StripZeros(ds))
\* parseInt of a string of decimal digits
ParseInt(ds) == Number(ParseDigits(ds))

-----------------------------------------------------------------------------
(* Diagnostic locator: the execFile callback.                              *)

NoMatch == [ok |-> FALSE]

\* /\[(\d+):(\d+)\]\s*(.*)/ tried at position p of s
BracketAt(s, p) ==
    LET e1 == SkipDigits(s, p + 1)
        e2 == SkipDigits(s, e1 + 1)
        m  == SkipSpace(s, e2 + 1)
        z  == SkipToTerminator(s, m)
    IN  IF /\ p <= Len(s) /\ s[p] = "["
           /\ e1 > p + 1 /\ e1 <= Len(s) /\ s[e1] = ":"
           /\ e2 > e1 + 1 /\ e2 <= Len(s) /\ s[e2] = "]"
        THEN [ok |-> TRUE, index |-> p - 1,
              g1 |-> Slice(s, p + 1, e1 - 1),
              g2 |-> Slice(s, e1 + 1, e2 - 1),
              g3 |-> Slice(s, m, z - 1)]
        ELSE NoMatch

\* errLine.match(/\[(\d+):(\d+)\]\s*(.*)/): the leftmost match
BracketMatch(s) ==
    LET hits == { p \in 1..Len(s) : BracketAt(s, p).ok }
    IN  IF hits = {} THEN NoMatch
        ELSE BracketAt(s, CHOOSE p \in hits : \A q \in hits : p <= q)

\* /line\s+(\d+)/i tried at position p of s
LineAt(s, p) ==
    LET w == SkipSpace(s, p + 4)
        e == SkipDigits(s, w)
    IN  IF /\ p + 3 <= Len(s)
           /\ <<ToLower(s[p]), ToLower(s[p + 1]), ToLower(s[p + 2]), ToLower(s[p + 3])>>
                  = <<"l", "i", "n", "e">>
           /\ w > p + 4
           /\ e > w
        THEN [ok |-> TRUE, index |-> p - 1, g1 |-> Slice(s, w, e - 1)]
        ELSE NoMatch

\* errLine.match(/line\s+(\d+)/i): the leftmost match
LineMatch(s) ==
    LET hits == { p \in 1..Len(s) : LineAt(s, p).ok }
    IN  IF hits = {} THEN NoMatch
        ELSE LineAt(s, CHOOSE p \in hits : \A q \in hits : p <= q)

\* new vscode.Diagnostic(new Range(line, col, line, MAX_SAFE_INTEGER), message, Error)
Diagnostic(line, col, message) ==
    [line |-> line, col |-> col, endLine |-> line, endCol |-> "MAX_SAFE_INTEGER",
     message |-> message, severity |-> "Error"]

\* (mutation: the 1-based number kept as it is)
ZeroBasedNoShift(digits) ==
    LET n == ParseDigits(digits)
    IN  IF n = Infinity \/ n = NaN THEN n
        ELSE IF FitsInt(n) THEN Max(0, ToInt(n))
        ELSE n
\* (mutation: the clamp to 0 left out)
ZeroBasedNoClamp(digits) ==
    LET n == ParseDigits(digits)
    IN  IF n = Infinity \/ n = NaN THEN n
        ELSE IF FitsInt(n) THEN ToInt(n) - 1
        ELSE Number(NearestDouble(Decrement(n)))
\* Math.max(0, parseInt(digits, 10) - 1): the subtraction is a double's, so
\* above 2^53 it rounds back to a double; Infinity and NaN stay as they are
ZeroBased(digits) ==
    LET n == ParseDigits(digits)
    IN  IF n = Infinity \/ n = NaN THEN n
        ELSE IF FitsInt(n) THEN Max(0, ToInt(n) - 1)
        ELSE Number(NearestDouble(Decrement(n)))

\* (mutation: the "line N" form not tried)
LocateStandaloneNoProse(errLine) ==
    LET bracketMatch == BracketMatch(errLine)
    IN  IF bracketMatch.ok
        THEN Diagnostic(ZeroBased(bracketMatch.g1), ZeroBased(bracketMatch.g2),
                        bracketMatch.g3)
        ELSE Diagnostic(0, 0, Trim(errLine))

\* (mutation: the message of the other forms left untrimmed)
LocateStandaloneUntrimmed(errLine) ==
    LET bracketMatch == BracketMatch(errLine)
        lineMatch == LineMatch(errLine)
    IN  IF bracketMatch.ok
        THEN Diagnostic(ZeroBased(bracketMatch.g1), ZeroBased(bracketMatch.g2),
                        bracketMatch.g3)
        ELSE IF lineMatch.ok
             THEN Diagnostic(ZeroBased(lineMatch.g1), 0, errLine)
             ELSE Diagnostic(0, 0, errLine)

\* the body of the standalone for-of loop for one non-blank errLine
LocateStandalone(errLine) ==
    LET bracketMatch == BracketMatch(errLine)
        lineMatch == LineMatch(errLine)
    IN  IF bracketMatch.ok
        THEN Diagnostic(ZeroBased(bracketMatch.g1), ZeroBased(bracketMatch.g2),
                        bracketMatch.g3)
        ELSE IF lineMatch.ok
             THEN Diagnostic(ZeroBased(lineMatch.g1), 0, Trim(errLine))
             ELSE Diagnostic(0, 0, Trim(errLine))

\* the body of the on-save fallback's for-of loop for one non-blank line
LocateFallback(line) ==
    LET m == BracketMatch(line)
    IN  IF m.ok
        THEN Diagnostic(ZeroBased(m.g1), ZeroBased(m.g2), m.g3)
        ELSE Diagnostic(0, 0, Trim(line))

LocateLine(v, errLine) ==
    IF v = "standalone" THEN LocateStandalone(errLine) ELSE LocateFallback(errLine)

\* (mutation: the line tested without trimming it)
IsBlankUntrimmed(errLine) == errLine = <<>>
\* if (!errLine.trim()) continue;
IsBlank(errLine) == Trim(errLine) = <<>>

\* the whole callback: the diagnostics handed to diagnosticCollection.set
RECURSIVE LocateLines(_, _)
LocateLines(v, ls) ==
    IF ls = <<>> THEN <<>>
    ELSE IF IsBlank(Head(ls)) THEN LocateLines(v, Tail(ls))
         ELSE <<LocateLine(v, Head(ls))>> \o LocateLines(v, Tail(ls))
Locate(v, err, text) ==
    IF err /\ text # <<>> THEN LocateLines(v, SplitLines(text)) ELSE <<>>

\* all sequences over S of length at most n
BoundedSeq(S, n) == UNION { [1..m -> S] : m \in 0..n }

\* The pieces the captured error texts are made of: bracketed prefixes (with the
\* 0 that the 1-based to 0-based conversion would turn into -1), the word
\* "line" in two casings, numbers, message text, white space and the line break.
ErrFragments ==
    { <<"[", "3", ":", "5", "]">>, <<"[", "0", ":", "0", "]">>,
      <<"l", "i", "n", "e">>, <<"L", "i", "N", "E">>,
      <<"1", "0">>, <<"0">>, <<"x">>, <<" ">>, <<"\n">> }
MaxErrFragments == 4
\* Error lines with the white space that is not in the fragments (VT, NBSP) and
\* with line terminators other than the line break (CR, LINE SEPARATOR), put
\* after a bracketed prefix, after a message, after the word "line" and alone.
SpaceTexts ==
    { pre \o <<c>> \o post :
        pre \in { <<>>, <<"[", "3", ":", "5", "]">>, <<"[", "3", ":", "5", "]", "x">>,
                  <<"l", "i", "n", "e">> },
        c \in { "", " ", "\r", "U+2028" },
        post \in { <<>>, <<"x">>, <<"1", "0">> } }
ErrTexts ==
    { Flatten(fs) : fs \in BoundedSeq(ErrFragments, MaxErrFragments) } \cup SpaceTexts

Variants == {"standalone", "lsp"}

\* diagnosticCollection.delete(uri)
Delete(coll, uri) == [u \in DOMAIN coll \ {uri} |-> coll[u]]
\* (mutation: the new diagnostics added to the stored ones, not replacing them)
SetAppend(coll, uri, diags) ==
    [u \in DOMAIN coll \cup {uri} |->
        IF u = uri THEN (IF uri \in DOMAIN coll THEN coll[uri] ELSE <<>>) \o diags
        ELSE coll[u]]
\* diagnosticCollection.set(uri, diags)
Set(coll, uri, diags) ==
    [u \in DOMAIN coll \cup {uri} |-> IF u = uri THEN diags ELSE coll[u]]
\* diagnosticCollection.get(uri), empty when there is no entry
Stored(uri) == IF uri \in DOMAIN collection THEN collection[uri] ELSE <<>>

EmptyCollection == [u \in {} |-> <<>>]

\* The extension is active until deactivate has run. The collection and the
\* handlers are in context.subscriptions, which the host disposes then.
Active == apc # "deactivated"
\* a call of diagnosticCollection.set: on the disposed collection it throws
\* and stores nothing
SetDiagnostics(uri, diags) ==
    IF Active THEN Set(collection, uri, diags) ELSE collection

\* the document whose run the callback below belongs to (document.uri)
CallbackDocument == "a.vibe"

LocIdle ==
    /\ variant = "standalone" /\ error = FALSE /\ stderr = <<>>
    /\ errorLines = <<>> /\ k = 1 /\ diagnostics = <<>> /\ lpc = "idle"

\* execFile invokes the callback with (error, _stdout, stderr)
LocInit ==
    /\ variant \in Variants
    /\ error \in BOOLEAN
    /\ stderr \in ErrTexts
    /\ errorLines = <<>>
    /\ k = 1
    /\ diagnostics = <<>>
    /\ lpc = "callback"

\* const diagnostics = []; if (error && stderr) { const errorLines = stderr.split("\n"); ...
EnterLoop ==
    /\ lpc = "callback"
    /\ error /\ stderr # <<>>
    /\ errorLines' = SplitLines(stderr)
    /\ lpc' = "loop"
    /\ UNCHANGED <<variant, error, stderr, k, diagnostics>>
    /\ UNCHANGED <<outVars, lifeVars, actVars>>

\* ... } else: the loop is not entered and the empty array is handed over:
\* diagnosticCollection.set(document.uri, diagnostics)
NoErrorText ==
    /\ lpc = "callback"
    /\ ~(error /\ stderr # <<>>)
    /\ collection' = SetDiagnostics(CallbackDocument, diagnostics)
    /\ lpc' = "done"
    /\ UNCHANGED <<variant, error, stderr, errorLines, k, diagnostics>>
    /\ UNCHANGED <<runs, inflight, enableDiagnostics, closed, cleared>>
    /\ UNCHANGED <<outVars, actVars>>

\* if (!errLine.trim()) continue;
SkipBlankLine ==
    /\ lpc = "loop"
    /\ k <= Len(errorLines)
    /\ IsBlank(errorLines[k])
    /\ k' = k + 1
    /\ UNCHANGED <<variant, error, stderr, errorLines, diagnostics, lpc>>
    /\ UNCHANGED <<outVars, lifeVars, actVars>>

\* diagnostics.push(new vscode.Diagnostic(range, message, Error))
PushDiagnostic ==
    /\ lpc = "loop"
    /\ k <= Len(errorLines)
    /\ ~IsBlank(errorLines[k])
    /\ diagnostics' = Append(diagnostics, LocateLine(variant, errorLines[k]))
    /\ k' = k + 1
    /\ UNCHANGED <<variant, error, stderr, errorLines, lpc>>
    /\ UNCHANGED <<outVars, lifeVars, actVars>>

\* the for-of loop is exhausted: diagnosticCollection.set(document.uri, diagnostics)
LeaveLoop ==
    /\ lpc = "loop"
    /\ k > Len(errorLines)
    /\ collection' = SetDiagnostics(CallbackDocument, diagnostics)
    /\ lpc' = "done"
    /\ UNCHANGED <<variant, error, stderr, errorLines, k, diagnostics>>
    /\ UNCHANGED <<runs, inflight, enableDiagnostics, closed, cleared>>
    /\ UNCHANGED <<outVars, actVars>>

LocNext == EnterLoop \/ NoErrorText \/ SkipBlankLine \/ PushDiagnostic \/ LeaveLoop

-----------------------------------------------------------------------------
(* Outline builder: VibeDocumentSymbolProvider.provideDocumentSymbols.     *)

\* the patterns array, in its order: keyword, kind, the class of the
\* identifier's first character, and whether "\s*=" must follow
patterns ==
    << [kw |-> <<"d","e","f">>, kind |-> "Function",
        first |-> UpperChars \cup LowerChars \cup {"_"}, eq |-> FALSE],
       [kw |-> <<"c","l","a","s","s">>, kind |-> "Class",
        first |-> UpperChars, eq |-> FALSE],
       [kw |-> <<"s","t","r","u","c","t">>, kind |-> "Struct",
        first |-> UpperChars, eq |-> FALSE],
       [kw |-> <<"e","n","u","m">>, kind |-> "Enum",
        first |-> UpperChars, eq |-> FALSE],
       [kw |-> <<"c","o","n","s","t">>, kind |-> "Constant",
        first |-> UpperChars \cup {"_"}, eq |-> TRUE] >>

\* line.match(pat.regex) for /^\s*kw\s+([first]\w*)/ (and \s*= for const)
MatchPattern(line, pat) ==
    LET p0 == SkipSpace(line, 1)
        w  == SkipSpace(line, p0 + Len(pat.kw))
        e  == SkipWord(line, w + 1)
        q  == SkipSpace(line, e)
    IN  IF /\ HasAt(line, p0, pat.kw)
           /\ w > p0 + Len(pat.kw)
           /\ w <= Len(line)
           /\ line[w] \in pat.first
           /\ pat.eq => (q <= Len(line) /\ line[q] = "=")
        THEN [ok |-> TRUE, name |-> Slice(line, w, e - 1), kind |-> pat.kind]
        ELSE NoMatch

\* for (const pat of patterns) { const match = ...; if (match) { ...; break; } }
RECURSIVE FirstMatchFrom(_, _)
FirstMatchFrom(line, j) ==
    IF j > Len(patterns) THEN NoMatch
    ELSE IF MatchPattern(line, patterns[j]).ok THEN MatchPattern(line, patterns[j])
         ELSE FirstMatchFrom(line, j + 1)
FirstMatch(line) == FirstMatchFrom(line, 1)

\* s has the keyword kw after leading white space, followed by \b
KeywordAtStart(s, kw) ==
    LET p0 == SkipSpace(s, 1)
        after == p0 + Len(kw)
    IN  /\ HasAt(s, p0, kw)
        /\ (after > Len(s) \/ ~IsWord(s[after]))

OpenKeywords ==
    { <<"d","e","f">>, <<"c","l","a","s","s">>, <<"s","t","r","u","c","t">>,
      <<"e","n","u","m">>, <<"i","f">>, <<"u","n","l","e","s","s">>,
      <<"u","n","t","i","l">>, <<"w","h","i","l","e">>, <<"f","o","r">>,
      <<"c","a","s","e">>, <<"t","r","y">> }

\* (mutation: a definition keyword counts only on a line that defines a symbol)
OpensBlockOnlyDefined(trimmed) ==
    \E kw \in OpenKeywords :
        /\ KeywordAtStart(trimmed, kw)
        /\ kw \in { <<"d","e","f">>, <<"c","l","a","s","s">>, <<"s","t","r","u","c","t">>,
                    <<"e","n","u","m">> } => FirstMatch(trimmed).ok

\* /^\s*(def|class|struct|enum|if|unless|until|while|for|case|try)\b/.test(trimmed)
OpensBlock(trimmed) == \E kw \in OpenKeywords : KeywordAtStart(trimmed, kw)

\* /^\s*end\b/.test(trimmed)
ClosesBlock(trimmed) == KeywordAtStart(trimmed, <<"e","n","d">>)

\* (mutation: the provisional end put at the identifier, not at the line's end)
NewSymbolEndAtName(m, line, idx) ==
    LET range == [start |-> <<idx, IndexOf(line, m.name)>>,
                  end |-> <<idx, IndexOf(line, m.name)>>]
    IN  [name |-> m.name, kind |-> m.kind, range |-> range, selectionRange |-> range,
         children |-> <<>>]

\* (mutation: the provisional end put at the start of the line)
NewSymbolEndAtLineStart(m, line, idx) ==
    LET range == [start |-> <<idx, IndexOf(line, m.name)>>, end |-> <<idx, 0>>]
    IN  [name |-> m.name, kind |-> m.kind, range |-> range, selectionRange |-> range,
         children |-> <<>>]

\* new vscode.DocumentSymbol(name, "", kind, range, range), range from
\* (idx, line.indexOf(name)) to (idx, line.length)
NewSymbol(m, line, idx) ==
    LET range == [start |-> <<idx, IndexOf(line, m.name)>>, end |-> <<idx, Len(line)>>]
    IN  [name |-> m.name, kind |-> m.kind, range |-> range, selectionRange |-> range,
         children |-> <<>>]

\* (mutation: every kind of node attached to the node of the top frame)
AttachesToParentAnyKind(stack, kind) == stack # <<>>
\* blockStack.length > 0 && (kind === Function || kind === Enum)
AttachesToParent(stack, kind) == stack # <<>> /\ kind \in {"Function", "Enum"}

\* (mutation: a frame pushed for every kind of node, constants included)
PushesFrameAnyKind(kind) == TRUE
\* kind === Class || Struct || Enum || Function
PushesFrame(kind) == kind \in {"Class", "Struct", "Enum", "Function"}

\* (mutation: a node attached to its parent is pushed to the top level too)
DefineSymbolBoth(st, line, idx) ==
    LET m == FirstMatch(line)
        id == Len(st.nodes) + 1
        withNode == Append(st.nodes, NewSymbol(m, line, idx))
        parent == st.blockStack[Len(st.blockStack)].symbol
    IN  IF ~m.ok THEN st
        ELSE [st EXCEPT
                !.nodes = IF AttachesToParent(st.blockStack, m.kind)
                          THEN [withNode EXCEPT ![parent].children = Append(@, id)]
                          ELSE withNode,
                !.symbols = Append(@, id),
                !.blockStack = IF PushesFrame(m.kind)
                               THEN Append(@, [symbol |-> id, depth |-> st.depth])
                               ELSE @]

\* (mutation: a child put in front of its siblings instead of after them)
DefineSymbolUnshift(st, line, idx) ==
    LET m == FirstMatch(line)
        id == Len(st.nodes) + 1
        withNode == Append(st.nodes, NewSymbol(m, line, idx))
        parent == st.blockStack[Len(st.blockStack)].symbol
    IN  IF ~m.ok THEN st
        ELSE [st EXCEPT
                !.nodes = IF AttachesToParent(st.blockStack, m.kind)
                          THEN [withNode EXCEPT ![parent].children = <<id>> \o @]
                          ELSE withNode,
                !.symbols = IF AttachesToParent(st.blockStack, m.kind)
                            THEN @ ELSE Append(@, id),
                !.blockStack = IF PushesFrame(m.kind)
                               THEN Append(@, [symbol |-> id, depth |-> st.depth])
                               ELSE @]

\* the "check for symbol definitions" part of the loop body
DefineSymbol(st, line, idx) ==
    LET m == FirstMatch(line)
        id == Len(st.nodes) + 1
        withNode == Append(st.nodes, NewSymbol(m, line, idx))
        parent == st.blockStack[Len(st.blockStack)].symbol
    IN  IF ~m.ok THEN st
        ELSE [st EXCEPT
                !.nodes = IF AttachesToParent(st.blockStack, m.kind)
                          THEN [withNode EXCEPT ![parent].children = Append(@, id)]
                          ELSE withNode,
                !.symbols = IF AttachesToParent(st.blockStack, m.kind)
                            THEN @ ELSE Append(@, id),
                !.blockStack = IF PushesFrame(m.kind)
                               THEN Append(@, [symbol |-> id, depth |-> st.depth])
                               ELSE @]

\* the "track depth" part: depth++
TrackDepth(st, trimmed) ==
    IF OpensBlock(trimmed) THEN [st EXCEPT !.depth = @ + 1] ELSE st

\* (mutation: every end resolves the frame on top of the stack)
ResolvesAlways(d, top) == TRUE
\* (mutation: a frame resolved when the depth is back at the top level)
ResolvesAtTopLevel(d, top) == d <= 0
\* (mutation: the comparison made strict)
ResolvesStrict(d, top) == d < top.depth
\* depth <= top.depth: the frame on top of the stack is resolved by this end
Resolves(d, top) == d <= top.depth

\* the "end keyword closes a block" part
CloseBlock(st, line, trimmed, idx) ==
    LET d == st.depth - 1
        top == st.blockStack[Len(st.blockStack)]
    IN  IF ~ClosesBlock(trimmed) THEN st
        ELSE IF st.blockStack # <<>> /\ Resolves(d, top)
             THEN [st EXCEPT
                     !.depth = d,
                     !.nodes[top.symbol].range.end = <<idx, Len(line)>>,
                     !.blockStack = SubSeq(@, 1, Len(@) - 1)]
             ELSE [st EXCEPT !.depth = d]

\* one iteration of the for loop over lines, for line number idx (0-based)
ScanStep(st, line, idx) ==
    CloseBlock(TrackDepth(DefineSymbol(st, line, idx), Trim(line)), line, Trim(line), idx)

\* the nested DocumentSymbol a node id stands for
RECURSIVE Tree(_, _)
Tree(ns, id) ==
    [name |-> ns[id].name, kind |-> ns[id].kind, range |-> ns[id].range,
     selectionRange |-> ns[id].selectionRange,
     children |-> [j \in 1..Len(ns[id].children) |-> Tree(ns, ns[id].children[j])]]
\* return symbols
Forest(ns, syms) == [j \in 1..Len(syms) |-> Tree(ns, syms[j])]

\* the lines a document is made of: plain text, defining lines of each kind
\* (one with a lower-case class name, one with an upper-case function name),
\* a control-flow opener and the closer
PlainLines == { <<"x">>, <<"e","n","d","s">> }
MethodLines == { <<"d","e","f"," ","f">>, <<" ","d","e","f"," ","g","o">> }
ClassLine == <<"c","l","a","s","s"," ","C">>
EndLine == <<"e","n","d">>
DocLines ==
    { <<"x">>, ClassLine, <<"d","e","f"," ","f">>, EndLine, <<"i","f"," ","x">>,
      <<"e","n","u","m"," ","E">>, <<"c","o","n","s","t"," ","K","=">>,
      <<"c","l","a","s","s"," ","c">>, <<"d","e","f"," ","F">> }
MaxLines == 4
MaxMethods == 2
MaxBody == 1

\* a method: its def line, a body of plain lines, its own end line
Methods ==
    { <<d>> \o b \o <<EndLine>> : d \in MethodLines, b \in BoundedSeq(PlainLines, MaxBody) }
\* a class line, methods, the final end line
ClassDocs ==
    { <<ClassLine>> \o Flatten(ms) \o <<EndLine>> : ms \in BoundedSeq(Methods, MaxMethods) }

\* a struct line, alone, or after and before one line that defines a symbol
StructLine == <<"s","t","r","u","c","t"," ","S">>
NestLines ==
    { ClassLine, StructLine, <<"d","e","f"," ","f">>, <<"e","n","u","m"," ","E">>,
      <<"c","o","n","s","t"," ","K","=">> }
StructDocs ==
    { pre \o <<StructLine>> \o post :
          pre \in BoundedSeq(NestLines, 1), post \in BoundedSeq(NestLines, 1) }

\* a class with one method, written with the white space that is not the
\* space character (VT, NBSP), and the texts it begins with
SpaceDoc ==
    << <<"c","l","a","s","s"," ","C">>, <<"","d","e","f","","f">>,
       <<"","e","n","d">>, <<"e","n","d"," ">> >>
SpaceDocs == { SubSeq(SpaceDoc, 1, n) : n \in 1..Len(SpaceDoc) }

Docs == BoundedSeq(DocLines, MaxLines) \cup ClassDocs \cup StructDocs \cup SpaceDocs

\* the document text: the lines joined by line breaks
RECURSIVE JoinLines(_)
JoinLines(ls) ==
    IF ls = <<>> THEN <<>>
    ELSE IF Len(ls) = 1 THEN ls[1]
         ELSE ls[1] \o <<"\n">> \o JoinLines(Tail(ls))

OutIdle ==
    /\ lines = <<>> /\ i = 0 /\ nodes = <<>> /\ symbols = <<>>
    /\ blockStack = <<>> /\ depth = 0 /\ opc = "idle"

\* const symbols = []; const lines = document.getText().split("\n");
\* const blockStack = []; let depth = 0;
OutInit ==
    /\ lines \in { SplitLines(JoinLines(ls)) : ls \in Docs }
    /\ i = 0
    /\ nodes = <<>>
    /\ symbols = <<>>
    /\ blockStack = <<>>
    /\ depth = 0
    /\ opc = "scan"

scanState == [nodes |-> nodes, symbols |-> symbols, blockStack |-> blockStack, depth |-> depth]

\* for (let i = 0; i < lines.length; i++) { ... }
ScanLine ==
    /\ opc = "scan"
    /\ i < Len(lines)
    /\ LET st == ScanStep(scanState, lines[i + 1], i)
       IN  /\ nodes' = st.nodes
           /\ symbols' = st.symbols
           /\ blockStack' = st.blockStack
           /\ depth' = st.depth
    /\ i' = i + 1
    /\ UNCHANGED <<lines, opc>>
    /\ UNCHANGED <<locVars, lifeVars, actVars>>

\* return symbols;
ReturnSymbols ==
    /\ opc = "scan"
    /\ i >= Len(lines)
    /\ opc' = "done"
    /\ UNCHANGED <<lines, i, nodes, symbols, blockStack, depth>>
    /\ UNCHANGED <<locVars, lifeVars, actVars>>

OutNext == ScanLine \/ ReturnSymbols

\* the loop as a function of the lines: the state after lines n.. of ls have
\* been scanned from state st
RECURSIVE ScanFrom(_, _, _)
ScanFrom(st, ls, n) ==
    IF n > Len(ls) THEN st ELSE ScanFrom(ScanStep(st, ls[n], n - 1), ls, n + 1)

\* provideDocumentSymbols as a function of the document's lines
provideDocumentSymbols(ls) ==
    LET st == ScanFrom([nodes |-> <<>>, symbols |-> <<>>, blockStack |-> <<>>,
                        depth |-> 0], ls, 1)
    IN  Forest(st.nodes, st.symbols)

-----------------------------------------------------------------------------
(* Diagnostics lifecycle of the standalone variant: activate's handlers.   *)

Uris == {"a.vibe", "b.vibe", "notes.txt"}
\* document.languageId
languageId(uri) == IF uri = "notes.txt" THEN "plaintext" ELSE "vibe"

\* what an interpreter run can hand to its callback: success, failure with a
\* bracketed error, a run killed by the timeout before it wrote anything, and
\* a run cut short by the maxBuffer cap with its error text truncated (cut is
\* what ended the child process; the callback gets an error object in both
\* cases, and the error text captured until then)
Outcomes ==
    { [error |-> FALSE, stderr |-> <<>>, cut |-> "none"],
      [error |-> TRUE, stderr |-> <<"[", "3", ":", "5", "]", " ", "x">>, cut |-> "none"],
      [error |-> TRUE, stderr |-> <<>>, cut |-> "timeout"],
      [error |-> TRUE, stderr |-> <<"[", "3", ":">>, cut |-> "maxBuffer"] }
MaxRuns == 2

LifeIdle ==
    /\ collection = EmptyCollection /\ runs = <<>> /\ inflight = {}
    /\ enableDiagnostics = TRUE
    /\ closed = [u \in Uris |-> FALSE] /\ cleared = [u \in Uris |-> FALSE]

\* (mutation: with diagnostics disabled the handler only returns)
runDiagnosticsNoDelete(uri, o) ==
    IF languageId(uri) # "vibe" \/ ~enableDiagnostics
    THEN UNCHANGED <<collection, runs, inflight, cleared>>
    ELSE /\ Len(runs) < MaxRuns
         /\ runs' = Append(runs, [uri |-> uri, outcome |-> o])
         /\ inflight' = inflight \cup {Len(runs) + 1}
         /\ cleared' = [cleared EXCEPT ![uri] = FALSE]
         /\ UNCHANGED collection

\* runDiagnostics(document), up to the execFile call; the outcome o is what the
\* interpreter process will report for the file as it reads it
runDiagnostics(uri, o) ==
    IF languageId(uri) # "vibe"
    THEN UNCHANGED <<collection, runs, inflight, cleared>>
    ELSE IF ~enableDiagnostics
         THEN /\ collection' = Delete(collection, uri)
              /\ cleared' = [cleared EXCEPT ![uri] = TRUE]
              /\ UNCHANGED <<runs, inflight>>
         ELSE /\ Len(runs) < MaxRuns
              /\ runs' = Append(runs, [uri |-> uri, outcome |-> o])
              /\ inflight' = inflight \cup {Len(runs) + 1}
              /\ cleared' = [cleared EXCEPT ![uri] = FALSE]
              /\ UNCHANGED collection

\* activate: the collection is created empty, and runDiagnostics runs for the
\* active editor's document when there is one: it starts a run, or, with
\* diagnostics disabled, deletes the document's (absent) entry
LifeInit ==
    /\ enableDiagnostics \in BOOLEAN
    /\ closed = [u \in Uris |-> FALSE]
    /\ collection = EmptyCollection
    /\ \E active \in Uris \cup {"none"} :
          IF active # "none" /\ languageId(active) = "vibe"
          THEN IF enableDiagnostics
               THEN \E o \in Outcomes :
                       /\ runs = << [uri |-> active, outcome |-> o] >>
                       /\ inflight = {1}
                       /\ cleared = [u \in Uris |-> FALSE]
               ELSE /\ runs = <<>> /\ inflight = {}
                    /\ cleared = [u \in Uris |-> u = active]
          ELSE /\ runs = <<>> /\ inflight = {}
               /\ cleared = [u \in Uris |-> FALSE]

\* onDidSaveTextDocument
OnSave ==
    \E uri \in Uris, o \in Outcomes :
        /\ Active
        /\ IF languageId(uri) = "vibe"
           THEN runDiagnostics(uri, o)
           ELSE UNCHANGED <<collection, runs, inflight, cleared>>
        /\ closed' = [closed EXCEPT ![uri] = FALSE]
        /\ UNCHANGED enableDiagnostics
        /\ UNCHANGED <<locVars, outVars, actVars>>

\* onDidOpenTextDocument
OnOpen ==
    \E uri \in Uris, o \in Outcomes :
        /\ Active
        /\ IF languageId(uri) = "vibe"
           THEN runDiagnostics(uri, o)
           ELSE UNCHANGED <<collection, runs, inflight, cleared>>
        /\ closed' = [closed EXCEPT ![uri] = FALSE]
        /\ UNCHANGED enableDiagnostics
        /\ UNCHANGED <<locVars, outVars, actVars>>

\* onDidCloseTextDocument
OnClose ==
    \E uri \in Uris :
        /\ Active
        /\ collection' = Delete(collection, uri)
        /\ closed' = [closed EXCEPT ![uri] = TRUE]
        /\ cleared' = [cleared EXCEPT ![uri] = TRUE]
        /\ UNCHANGED <<runs, inflight, enableDiagnostics>>
        /\ UNCHANGED <<locVars, outVars, actVars>>

\* the execFile callback of run id fires
Complete ==
    \E id \in inflight :
        /\ collection' = SetDiagnostics(runs[id].uri,
                                        Locate("standalone", runs[id].outcome.error,
                                               runs[id].outcome.stderr))
        /\ inflight' = inflight \ {id}
        /\ UNCHANGED <<runs, enableDiagnostics, closed, cleared>>
        /\ UNCHANGED <<locVars, outVars, actVars>>

\* the user changes vibe.enableDiagnostics
ChangeConfig ==
    /\ enableDiagnostics' = ~enableDiagnostics
    /\ UNCHANGED <<collection, runs, inflight, closed, cleared>>
    /\ UNCHANGED <<locVars, outVars, actVars>>

\* export function deactivate(): diagnosticCollection.dispose(), which empties
\* the collection; the handlers are disposed with context.subscriptions, the
\* callbacks of the runs still in flight are not
Deactivate ==
    /\ Active
    /\ collection' = EmptyCollection
    /\ apc' = "deactivated"
    /\ UNCHANGED <<runs, inflight, enableDiagnostics, closed, cleared>>
    /\ UNCHANGED <<client, registered, installed>>
    /\ UNCHANGED <<locVars, outVars>>

LifeNext == OnSave \/ OnOpen \/ OnClose \/ Complete \/ ChangeConfig \/ Deactivate

-----------------------------------------------------------------------------
(* Diagnostics of the LSP-aware variant's fallback: registerFallbackProviders. *)

\* registerFallbackProviders: the collection is created empty; no run is
\* started and only the save handler is registered
FallbackInit ==
    /\ enableDiagnostics \in BOOLEAN
    /\ closed = [u \in Uris |-> FALSE]
    /\ cleared = [u \in Uris |-> FALSE]
    /\ collection = EmptyCollection
    /\ runs = <<>>
    /\ inflight = {}

\* the fallback's locator state: no callback is being executed
FallbackLocIdle ==
    /\ variant = "lsp" /\ error = FALSE /\ stderr = <<>>
    /\ errorLines = <<>> /\ k = 1 /\ diagnostics = <<>> /\ lpc = "idle"

\* onDidSaveTextDocument of the fallback, up to the execFile call
FallbackOnSave ==
    \E uri \in Uris, o \in Outcomes :
        /\ Active
        /\ IF languageId(uri) # "vibe" \/ ~enableDiagnostics
           THEN UNCHANGED <<collection, runs, inflight, cleared>>
           ELSE /\ Len(runs) < MaxRuns
                /\ runs' = Append(runs, [uri |-> uri, outcome |-> o])
                /\ inflight' = inflight \cup {Len(runs) + 1}
                /\ cleared' = [cleared EXCEPT ![uri] = FALSE]
                /\ UNCHANGED collection
        /\ closed' = [closed EXCEPT ![uri] = FALSE]
        /\ UNCHANGED enableDiagnostics
        /\ UNCHANGED <<locVars, outVars, actVars>>

\* the fallback's execFile callback of run id fires
FallbackComplete ==
    \E id \in inflight :
        /\ collection' = SetDiagnostics(runs[id].uri,
                                        Locate("lsp", runs[id].outcome.error,
                                               runs[id].outcome.stderr))
        /\ inflight' = inflight \ {id}
        /\ UNCHANGED <<runs, enableDiagnostics, closed, cleared>>
        /\ UNCHANGED <<locVars, outVars, actVars>>

\* export async function deactivate(): if (client) await client.stop(). The
\* fallback's collection and save handler, when they were registered, are
\* disposed with context.subscriptions; callbacks in flight are not
DeactivateLsp ==
    /\ apc \in {"idle", "done"}
    /\ client' = IF client = "started" THEN "stopped" ELSE client
    /\ collection' = EmptyCollection
    /\ apc' = "deactivated"
    /\ UNCHANGED <<runs, inflight, enableDiagnostics, closed, cleared>>
    /\ UNCHANGED <<registered, installed>>
    /\ UNCHANGED <<locVars, outVars>>

FallbackNext == FallbackOnSave \/ FallbackComplete \/ ChangeConfig

-----------------------------------------------------------------------------
(* Activation of the LSP-aware variant: activate, startLanguageClient.     *)

\* what registerFallbackProviders registers
FallbackProviders == {"completion", "hover", "symbols", "onSave"}
\* the places startLanguageClient looks for the binary
LspPlaces == {"path", "home"}

\* export async function activate(context), entered
ActInit ==
    /\ apc = "start"
    /\ client = "undefined"
    /\ registered = {}
    /\ installed \in SUBSET LspPlaces

\* vscode.commands.registerCommand("vibe.run", runVibeFile)
RegisterRunCommand ==
    /\ apc = "start"
    /\ registered' = registered \cup {"vibe.run"}
    /\ apc' = "probe"
    /\ UNCHANGED <<client, installed>>
    /\ UNCHANGED <<locVars, outVars, lifeVars>>

\* startLanguageClient's result: `which lspPath` succeeds, or it fails and
\* ~/.vibe/bin/vibe-lsp exists: startLSPWithPath, true; otherwise false
startLanguageClient(places) == "path" \in places \/ "home" \in places

\* const lspStarted = await startLanguageClient(context); startLSPWithPath
\* assigns the client and starts it
AwaitLanguageClient ==
    /\ apc = "probe"
    /\ client' = IF startLanguageClient(installed) THEN "started" ELSE client
    /\ apc' = IF startLanguageClient(installed) THEN "lsp" ELSE "nolsp"
    /\ UNCHANGED <<registered, installed>>
    /\ UNCHANGED <<locVars, outVars, lifeVars>>

\* (mutation: the fallback providers registered whatever lspStarted is)
UsesFallbackAlways(lspStarted) == TRUE
\* if (lspStarted) { ... } else { ...; registerFallbackProviders(context); }
UsesFallback(lspStarted) == ~lspStarted

\* the if statement that ends activate
FinishActivate ==
    /\ apc \in {"lsp", "nolsp"}
    /\ registered' = IF UsesFallback(apc = "lsp")
                      THEN registered \cup FallbackProviders
                      ELSE registered
    /\ apc' = "done"
    /\ UNCHANGED <<client, installed>>
    /\ UNCHANGED <<locVars, outVars, lifeVars>>

\* the fallback's handlers run once they are registered
FallbackActive == "onSave" \in registered /\ FallbackNext

ActNext ==
    \/ RegisterRunCommand \/ AwaitLanguageClient \/ FinishActivate
    \/ FallbackActive \/ DeactivateLsp

-----------------------------------------------------------------------------
(* Specifications.                                                         *)

InitLocate == LocInit /\ OutIdle /\ LifeIdle /\ ActIdle
InitOutline == OutInit /\ LocIdle /\ LifeIdle /\ ActIdle
InitLifecycle == LifeInit /\ LocIdle /\ OutIdle /\ ActIdle

SpecLocate == InitLocate /\ [][LocNext]_vars
SpecOutline == InitOutline /\ [][OutNext]_vars
SpecLifecycle == InitLifecycle /\ [][LifeNext]_vars

\* the diagnostics of either variant: the variable variant tells which
\* extension was activated
InitDiagnostics ==
    \/ LifeInit /\ LocIdle /\ OutIdle /\ ActIdle
    \/ FallbackInit /\ FallbackLocIdle /\ OutIdle /\ ActIdle
StandaloneNext == variant = "standalone" /\ LifeNext
LspNext == variant = "lsp" /\ (FallbackNext \/ DeactivateLsp)
SpecDiagnostics == InitDiagnostics /\ [][StandaloneNext \/ LspNext]_vars

InitActivate == ActInit /\ FallbackInit /\ FallbackLocIdle /\ OutIdle
SpecActivate == InitActivate /\ [][ActNext]_vars

-----------------------------------------------------------------------------
(* Properties of the outline builder.                                      *)

\* the forest provideDocumentSymbols returns
Returned == Forest(nodes, symbols)

\* the 0-based numbers of the lines of ls, from position p on, that are in S
RECURSIVE LinesIn(_, _, _)
LinesIn(ls, S, p) ==
    IF p > Len(ls) THEN <<>>
    ELSE (IF ls[p] \in S THEN <<p - 1>> ELSE <<>>) \o LinesIn(ls, S, p + 1)

\* the 0-based number of the first end line after line number n
NextEnd(ls, n) ==
    CHOOSE e \in (n + 1)..(Len(ls) - 1) :
        /\ ls[e + 1] = EndLine
        /\ \A f \in (n + 1)..(e - 1) : ls[f + 1] # EndLine

\* C1: a class line, n methods each closed by its own end, and a final end
\* give exactly one top-level Class node named C whose children are exactly
\* the n Function nodes in declaration order; each child ends on the line of
\* its own end and the class ends on the line of the final end.
C1_ClassWithMethods ==
    (opc = "done" /\ lines \in ClassDocs) =>
        LET defs == LinesIn(lines, MethodLines, 1)
        IN  /\ Len(Returned) = 1
            /\ Returned[1].kind = "Class"
            /\ Returned[1].name = <<"C">>
            /\ Returned[1].range.start[1] = 0
            /\ Returned[1].range.end[1] = Len(lines) - 1
            /\ Len(Returned[1].children) = Len(defs)
            /\ \A j \in 1..Len(defs) :
                   LET child == Returned[1].children[j]
                   IN  /\ child.kind = "Function"
                       /\ child.range.start[1] = defs[j]
                       /\ child.range.end[1] = NextEnd(lines, defs[j])
                       /\ child.children = <<>>

\* C1 witness: a class with two methods, one of them with a body, scanned to
\* the end, its class node ending after the last method's end
C1_Witness ==
    /\ opc = "done"
    /\ lines \in ClassDocs
    /\ Len(LinesIn(lines, MethodLines, 1)) = 2
    /\ Len(lines) > 6
    /\ Len(Returned[1].children) = 2
    /\ Returned[1].range.end[1] > Returned[1].children[2].range.end[1]

\* the keywords of the blocks open before line number n (0-based), innermost
\* last, by the block structure of the text itself
RECURSIVE OpenBlocks(_, _)
OpenBlocks(ls, n) ==
    IF n = 0 THEN <<>>
    ELSE LET before == OpenBlocks(ls, n - 1)
             t == Trim(ls[n])
             opener == { kw \in OpenKeywords : KeywordAtStart(t, kw) }
         IN  IF opener # {} THEN Append(before, CHOOSE kw \in opener : TRUE)
             ELSE IF KeywordAtStart(t, EndLine) /\ before # <<>>
                  THEN SubSeq(before, 1, Len(before) - 1)
                  ELSE before

TypeKeywords ==
    { <<"c","l","a","s","s">>, <<"s","t","r","u","c","t">>, <<"e","n","u","m">> }

\* line number n is lexically inside an open class, struct or enum block
InsideTypeBlock(ls, n) ==
    \E j \in 1..Len(OpenBlocks(ls, n)) : OpenBlocks(ls, n)[j] \in TypeKeywords

IsChild(id) == \E n \in 1..Len(nodes) : \E j \in 1..Len(nodes[n].children) :
                  nodes[n].children[j] = id
IsTopLevel(id) == \E j \in 1..Len(symbols) : symbols[j] = id

\* C2 (as claimed): a Function node whose def line is not inside any open
\* class, struct or enum block is in the top-level forest and is never a
\* child of another node.
C2_FunctionOutsideTypeIsTopLevel ==
    opc = "done" =>
        \A id \in 1..Len(nodes) :
            (nodes[id].kind = "Function"
               /\ ~InsideTypeBlock(lines, nodes[id].range.start[1]))
            => (IsTopLevel(id) /\ ~IsChild(id))

\* the ids of the nodes of the returned forest
RECURSIVE IdsUnder(_, _)
IdsUnder(ns, ids) ==
    IF ids = <<>> THEN {}
    ELSE {Head(ids)} \cup IdsUnder(ns, ns[Head(ids)].children) \cup IdsUnder(ns, Tail(ids))

\* C10: a node whose frame is still on the stack when the scan ends is in the
\* returned forest, and its end is the provisional one: its own start line,
\* at that line's end column.
C10_UnterminatedKeepsProvisionalEnd ==
    opc = "done" =>
        \A f \in 1..Len(blockStack) :
            LET id == blockStack[f].symbol
                ln == nodes[id].range.start[1]
            IN  /\ id \in IdsUnder(nodes, symbols)
                /\ nodes[id].range.end = <<ln, Len(lines[ln + 1])>>

\* C10 witness: a class left open at the end of a text in which another
\* block was closed after the class line
C10_Witness ==
    /\ opc = "done"
    /\ \E f \in 1..Len(blockStack) :
          LET id == blockStack[f].symbol
          IN  /\ nodes[id].kind = "Class"
              /\ \E n \in (nodes[id].range.start[1] + 2)..Len(lines) :
                     lines[n] = EndLine

-----------------------------------------------------------------------------
(* Properties of the diagnostic locator.                                   *)

\* s has "[", digits, ":", digits, "]" at positions p .. b, the colon at c
BracketFormAt(s, p, c, b) ==
    /\ 1 <= p /\ p + 1 < c /\ c + 1 < b /\ b <= Len(s)
    /\ s[p] = "[" /\ s[c] = ":" /\ s[b] = "]"
    /\ \A q \in (p + 1)..(c - 1) : IsDigit(s[q])
    /\ \A q \in (c + 1)..(b - 1) : IsDigit(s[q])

ContainsBracketForm(s) ==
    \E p, c, b \in 1..Len(s) : BracketFormAt(s, p, c, b)

\* the first character of s that is not white space
FirstText(s) == CHOOSE p \in 1..(Len(s) + 1) :
                   /\ \A q \in 1..(p - 1) : IsSpace(s[q])
                   /\ p <= Len(s) => ~IsSpace(s[p])

\* the line begins (after any indentation) with a [L:C] prefix
BeginsWithBracket(s) ==
    \E c, b \in 1..Len(s) : BracketFormAt(s, FirstText(s), c, b)

\* s has "line" in any casing at p, then white space, then a digit at w
LineFormAt(s, p, w) ==
    /\ 1 <= p /\ p + 4 < w /\ w <= Len(s)
    /\ [j \in 1..4 |-> ToLower(s[p + j - 1])] = <<"l", "i", "n", "e">>
    /\ \A q \in (p + 4)..(w - 1) : IsSpace(s[q])
    /\ IsDigit(s[w])

ContainsLineForm(s) == \E p, w \in 1..Len(s) : LineFormAt(s, p, w)

\* the digit string that starts at w, taken as far as it goes
DigitsFrom(s, w) ==
    LET e == CHOOSE e \in w..Len(s) :
                 /\ \A q \in w..e : IsDigit(s[q])
                 /\ e < Len(s) => ~IsDigit(s[e + 1])
    IN  SubSeq(s, w, e)

AllSpace(s) == \A q \in 1..Len(s) : IsSpace(s[q])

\* the line the for-of loop has just handled, and the diagnostic it pushed
Handled == lpc = "loop" /\ k > 1 /\ ~AllSpace(errorLines[k - 1])
handledLine == errorLines[k - 1]
pushed == diagnostics[Len(diagnostics)]

\* C5 (as claimed): a non-blank line that begins with a [L:C] prefix gives
\* line max(0, L-1), column max(0, C-1) and as message the text that follows
\* the prefix (from its first character that is not white space to the end
\* of the line), whether or not the line also contains "line N".
C5_BracketedPrefix ==
    (Handled /\ BeginsWithBracket(handledLine)) =>
        LET p == FirstText(handledLine)
            cb == CHOOSE cb \in (1..Len(handledLine)) \X (1..Len(handledLine)) :
                      BracketFormAt(handledLine, p, cb[1], cb[2])
            L == ParseInt(SubSeq(handledLine, p + 1, cb[1] - 1))
            C == ParseInt(SubSeq(handledLine, cb[1] + 1, cb[2] - 1))
        IN  /\ pushed.line = Max(0, L - 1)
            /\ pushed.col = Max(0, C - 1)
            /\ pushed.message =
                   Slice(handledLine, SkipSpace(handledLine, cb[2] + 1), Len(handledLine))

\* C6: in the standalone variant a non-blank line with no bracketed form that
\* contains "line N" in any casing gives line max(0, N-1), column 0 and the
\* whole trimmed line as message (N: the first such occurrence).
C6_ProseLine ==
    (Handled /\ variant = "standalone"
       /\ ~ContainsBracketForm(handledLine) /\ ContainsLineForm(handledLine)) =>
        LET pw == CHOOSE pw \in (1..Len(handledLine)) \X (1..Len(handledLine)) :
                      /\ LineFormAt(handledLine, pw[1], pw[2])
                      /\ \A q, w \in 1..Len(handledLine) :
                             LineFormAt(handledLine, q, w) => pw[1] <= q
            N == ParseInt(DigitsFrom(handledLine, pw[2]))
        IN  /\ pushed.line = Max(0, N - 1)
            /\ pushed.col = 0
            /\ pushed.message = Trim(handledLine)

\* C6 witness: a line such as "x LiNE 10" handled and anchored at line 9
C6_Witness ==
    /\ Handled
    /\ variant = "standalone"
    /\ ~ContainsBracketForm(handledLine)
    /\ ContainsLineForm(handledLine)
    /\ handledLine[1] = "x"
    /\ pushed.line = 9 /\ pushed.col = 0

\* C7 (as claimed): a non-blank line that neither begins with a [L:C] prefix
\* nor contains "line N" gives line 0, column 0 and the trimmed line.
C7_Unanchored_AsClaimed ==
    (Handled /\ ~BeginsWithBracket(handledLine) /\ ~ContainsLineForm(handledLine)) =>
        /\ pushed.line = 0
        /\ pushed.col = 0
        /\ pushed.message = Trim(handledLine)

\* C7 (amended): a non-blank line that contains no [L:C] form anywhere and no
\* "line N" gives line 0, column 0 and the trimmed line.
C7_Unanchored ==
    (Handled /\ ~ContainsBracketForm(handledLine) /\ ~ContainsLineForm(handledLine)) =>
        /\ pushed.line = 0
        /\ pushed.col = 0
        /\ pushed.message = Trim(handledLine)

\* C7 witness: a line with the word "line" but no number after it and with
\* surrounding white space, handled and left at the document start with its
\* trimmed text
C7_Witness ==
    /\ Handled
    /\ ~ContainsBracketForm(handledLine)
    /\ ~ContainsLineForm(handledLine)
    /\ \E q \in 1..Len(handledLine) : handledLine[q] = "l"
    /\ Len(pushed.message) < Len(handledLine)
    /\ pushed.line = 0 /\ pushed.col = 0

\* the lines of ls that are not blank, in order
RECURSIVE NonBlank(_)
NonBlank(ls) ==
    IF ls = <<>> THEN <<>>
    ELSE (IF AllSpace(Head(ls)) THEN <<>> ELSE <<Head(ls)>>) \o NonBlank(Tail(ls))

\* C8: the callback of a failed run hands over exactly one diagnostic, of
\* severity Error, per non-blank line of the error text, in the order of
\* those lines; blank and white-space lines contribute nothing.
C8_OnePerNonBlankLine ==
    (lpc = "done" /\ error) =>
        LET nb == NonBlank(SplitLines(stderr))
        IN  /\ Len(diagnostics) = Len(nb)
            /\ \A j \in 1..Len(nb) :
                   /\ diagnostics[j].severity = "Error"
                   /\ diagnostics[j] = LocateLine(variant, nb[j])

\* C8 witness: a failed run whose error text has a white-space line and an
\* empty line besides a non-blank one
C8_Witness ==
    /\ lpc = "done"
    /\ error
    /\ Len(diagnostics) = 1
    /\ \E a, b \in 1..Len(errorLines) :
          /\ errorLines[a] = <<>>
          /\ errorLines[b] # <<>> /\ AllSpace(errorLines[b])

\* C9: every diagnostic has line >= 0 and column >= 0, in both variants.
C9_NonNegativePosition ==
    \A j \in 1..Len(diagnostics) :
        diagnostics[j].line >= 0 /\ diagnostics[j].col >= 0

\* C9 witness: the fallback variant has handled "[0:0]", whose numbers would
\* give -1 after the conversion
C9_Witness ==
    /\ Handled
    /\ variant = "lsp"
    /\ handledLine = <<"[", "0", ":", "0", "]">>
    /\ pushed.line = 0 /\ pushed.col = 0

-----------------------------------------------------------------------------
(* Properties of the diagnostics lifecycle.                                *)

\* the runs triggered for uri, by id
RunsOf(uri) == { id \in 1..Len(runs) : runs[id].uri = uri }
\* the most recently triggered run of uri
LatestRun(uri) == CHOOSE id \in RunsOf(uri) : \A other \in RunsOf(uri) : other <= id

\* C3 (as claimed): once the close event of a document has been handled, the
\* document has no diagnostics until it is opened or saved again, whatever
\* callbacks of runs already in flight fire in between (while the extension
\* is active: deactivate empties the collection for good).
C3_ClosedHasNoDiagnostics ==
    Active => \A uri \in Uris : closed[uri] => Stored(uri) = <<>>

\* C4 (as claimed): when every run triggered for a document has completed
\* (and its entry was not deleted since the latest trigger), the stored
\* diagnostics are those of the most recently triggered run (while the
\* extension is active).
C4_LatestTriggeredRunWins ==
    \A uri \in Uris :
        (Active /\ RunsOf(uri) # {} /\ RunsOf(uri) \cap inflight = {} /\ ~cleared[uri]) =>
            Stored(uri) = Locate("standalone", runs[LatestRun(uri)].outcome.error,
                                 runs[LatestRun(uri)].outcome.stderr)

-----------------------------------------------------------------------------
(* Further properties of the outline builder.                              *)

\* the line a node starts on
StartLine(id) == nodes[id].range.start[1]
\* the nodes of ids start on strictly increasing lines
Increasing(ids) ==
    \A a, b \in 1..Len(ids) : a < b => StartLine(ids[a]) < StartLine(ids[b])

\* C11: for every text the scan never goes past the last line, its next
\* step is defined until it has returned, and it returns after the last line
\* a forest in source order: the top-level nodes start on strictly increasing
\* lines, and so do the children of every node, each after its parent's line.
C11_SourceOrder ==
    /\ i <= Len(lines)
    /\ \A id \in 1..Len(nodes) : StartLine(id) < i
    /\ opc = "scan" =>
          IF i < Len(lines)
          THEN LET st == ScanStep(scanState, lines[i + 1], i)
               IN  st.depth \in Int /\ Len(st.nodes) \in Len(nodes)..(Len(nodes) + 1)
          ELSE i = Len(lines)
    /\ opc = "done" =>
          /\ i = Len(lines)
          /\ Increasing(symbols)
          /\ \A id \in IdsUnder(nodes, symbols) :
                 /\ Increasing(nodes[id].children)
                 /\ \A c \in 1..Len(nodes[id].children) :
                        StartLine(nodes[id].children[c]) > StartLine(id)

\* C11 witness: an unbalanced text scanned to its end, whose returned forest
\* has a node with two children
C11_Witness ==
    /\ opc = "done"
    /\ i = Len(lines)
    /\ Len(LinesIn(lines, {EndLine}, 1)) < Len(LinesIn(lines, DocLines \ {EndLine, <<"x">>}, 1))
    /\ \E id \in IdsUnder(nodes, symbols) : Len(nodes[id].children) = 2

\* the first character of what follows the keyword kw and white space on a
\* line, "" when nothing does
IdentFirst(line, kw) ==
    LET after == SkipSpace(line, 1) + Len(kw)
        q == SkipSpace(line, after)
    IN  IF q > after /\ q <= Len(line) THEN line[q] ELSE ""

\* a class, struct or enum line whose identifier starts with a lower-case letter
ViolatesCasing(line) ==
    \E kw \in TypeKeywords :
        KeywordAtStart(line, kw) /\ IdentFirst(line, kw) \in LowerChars

\* the casing rule as the claim has it: def too has one, lower-case first
ViolatesCasingAsClaimed(line) ==
    \/ ViolatesCasing(line)
    \/ /\ KeywordAtStart(line, <<"d","e","f">>)
       /\ IdentFirst(line, <<"d","e","f">>) \in UpperChars

\* the 0-based numbers of the lines that opened the blocks open before line
\* number n (0-based), innermost last, by the block structure of the text
RECURSIVE OpenLines(_, _)
OpenLines(ls, n) ==
    IF n = 0 THEN <<>>
    ELSE LET before == OpenLines(ls, n - 1)
             t == Trim(ls[n])
         IN  IF \E kw \in OpenKeywords : KeywordAtStart(t, kw) THEN Append(before, n - 1)
             ELSE IF KeywordAtStart(t, EndLine) /\ before # <<>>
                  THEN SubSeq(before, 1, Len(before) - 1)
                  ELSE before

\* the end line about to be scanned closes a block opened by a line for which
\* Violates holds
ClosesViolating(Violates(_)) ==
    /\ ClosesBlock(Trim(lines[i + 1]))
    /\ OpenLines(lines, i) # <<>>
    /\ Violates(lines[OpenLines(lines, i)[Len(OpenLines(lines, i))] + 1])

\* C15 (as claimed): scanning a line whose identifier violates the casing
\* rule, def lines with an upper-case-leading name included, creates no node
\* and pushes no frame but increments depth, and the end that closes it
\* resolves no node.
C15_CasingViolation_AsClaimed ==
    [][(opc = "scan" /\ i' = i + 1) =>
          /\ ViolatesCasingAsClaimed(lines[i + 1]) =>
                 /\ nodes' = nodes /\ symbols' = symbols /\ blockStack' = blockStack
                 /\ depth' = depth + 1
          /\ ClosesViolating(ViolatesCasingAsClaimed) =>
                 nodes' = nodes /\ blockStack' = blockStack]_vars

\* C15 (amended): def has no casing rule; scanning a class, struct or enum
\* line whose identifier starts with a lower-case letter creates no node and
\* pushes no frame but increments depth, and the end that closes it resolves
\* no node: nodes and stack are as before it.
C15_CasingViolation ==
    [][(opc = "scan" /\ i' = i + 1) =>
          /\ ViolatesCasing(lines[i + 1]) =>
                 /\ nodes' = nodes /\ symbols' = symbols /\ blockStack' = blockStack
                 /\ depth' = depth + 1
          /\ ClosesViolating(ViolatesCasing) =>
                 nodes' = nodes /\ blockStack' = blockStack]_vars

\* C15 witness: inside an open class, a class line with a lower-case name and
\* its end have just been scanned: one node, one frame, the class still open
C15_Witness ==
    /\ opc = "scan"
    /\ i = 3
    /\ lines[1] = ClassLine
    /\ lines[2] = <<"c","l","a","s","s"," ","c">>
    /\ lines[3] = EndLine
    /\ Len(nodes) = 1
    /\ Len(blockStack) = 1
    /\ depth = 1
    /\ nodes[1].range.end[1] = 0

\* the keywords of the defining patterns
DefiningKeywords == TypeKeywords \cup { <<"d","e","f">>, <<"c","o","n","s","t">> }

\* the 0-based column at which the identifier of a defining line begins: after
\* the indentation, the keyword and the white space that follows it
IdentColumn(line) ==
    LET kw == CHOOSE w \in DefiningKeywords : KeywordAtStart(line, w)
    IN  SkipSpace(line, SkipSpace(line, 1) + Len(kw)) - 1

\* C16 (as claimed): every node was created with its start at the column at
\* which the matched identifier itself begins on its line and its provisional
\* end at the line's length, also when the identifier's text occurs earlier on
\* the line.
C16_StartAtIdentifier ==
    \A id \in 1..Len(nodes) :
        LET ln == StartLine(id)
            atCreation == [start |-> <<ln, IdentColumn(lines[ln + 1])>>,
                           end |-> <<ln, Len(lines[ln + 1])>>]
        IN  /\ nodes[id].selectionRange = atCreation
            /\ nodes[id].range.start = atCreation.start

\* position p is at or after position q, in (line, column) order
AtOrAfter(p, q) == p[1] > q[1] \/ (p[1] = q[1] /\ p[2] >= q[2])

\* C17: every node of the returned forest ends at or after its start, in
\* (line, column) order, whether its end was resolved by a closing line or is
\* still the provisional one.
C17_EndNotBeforeStart ==
    opc = "done" =>
        \A id \in IdsUnder(nodes, symbols) :
            AtOrAfter(nodes[id].range.end, nodes[id].range.start)

\* C17 witness: a returned forest with a node resolved on a later line and a
\* node that kept its provisional end
C17_Witness ==
    /\ opc = "done"
    /\ \E id \in IdsUnder(nodes, symbols) : nodes[id].range.end[1] > StartLine(id)
    /\ \E id \in IdsUnder(nodes, symbols) :
          /\ nodes[id].range.end = nodes[id].selectionRange.end
          /\ \E f \in 1..Len(blockStack) : blockStack[f].symbol = id

\* a range, a nested node and a forest with every line number shifted by n
ShiftRange(r, n) ==
    [start |-> <<r.start[1] + n, r.start[2]>>, end |-> <<r.end[1] + n, r.end[2]>>]
RECURSIVE ShiftTree(_, _)
ShiftTree(t, n) ==
    [name |-> t.name, kind |-> t.kind, range |-> ShiftRange(t.range, n),
     selectionRange |-> ShiftRange(t.selectionRange, n),
     children |-> [j \in 1..Len(t.children) |-> ShiftTree(t.children[j], n)]]
ShiftForest(f, n) == [j \in 1..Len(f) |-> ShiftTree(f[j], n)]

\* the number of end lines a text begins with
RECURSIVE LeadingEnds(_)
LeadingEnds(ls) ==
    IF ls # <<>> /\ ClosesBlock(Trim(Head(ls))) THEN 1 + LeadingEnds(Tail(ls)) ELSE 0

\* C19: an end met while the stack is empty is a no-op for the outline: for
\* every text that is a text T preceded by n unmatched end lines, the forest
\* returned is the forest built from T with every line number shifted by n.
C19_UnmatchedEndIsNoOp ==
    opc = "done" =>
        \A n \in 1..LeadingEnds(lines) :
            n < Len(lines) =>
                Returned = ShiftForest(provideDocumentSymbols(SubSeq(lines, n + 1, Len(lines))), n)

\* C19 witness: a text that begins with an unmatched end and goes on with a
\* class and a method closed by its end was scanned: the method is a child of
\* the class and resolved, as in the text without the leading end
C19_Witness ==
    /\ opc = "done"
    /\ LeadingEnds(lines) = 1
    /\ Len(lines) = 4
    /\ Len(Returned) = 1
    /\ Returned[1].kind = "Class"
    /\ Returned[1].range.start[1] = 1
    /\ Len(Returned[1].children) = 1
    /\ Returned[1].children[1].range.end[1] = 3
    /\ depth = 0

\* the stack has a frame of node id
FrameIn(stack, id) == \E g \in 1..Len(stack) : stack[g].symbol = id

\* C22: scanning a line pops a frame opened at depth d exactly when the line
\* is an end that brings the depth back to d or below, and then the frame's
\* node ends on that line; every other line, the ends of inner blocks
\* included, leaves the frame on the stack and its node's range as it was.
C22_ResolvedByFirstReturn ==
    [][(opc = "scan" /\ i' = i + 1) =>
          \A f \in 1..Len(blockStack) :
              LET frame == blockStack[f]
                  line == lines[i + 1]
                  returns == ClosesBlock(Trim(line)) /\ depth' <= frame.depth
              IN  /\ FrameIn(blockStack', frame.symbol) <=> ~returns
                  /\ returns => nodes'[frame.symbol].range.end = <<i, Len(line)>>
                  /\ ~returns => nodes'[frame.symbol].range = nodes[frame.symbol].range]_vars

\* C22 witness: a class holding an if block: the end of the if block left the
\* class open, the next end resolved it on the last line
C22_Witness ==
    /\ opc = "done"
    /\ lines = <<ClassLine, <<"i","f"," ","x">>, EndLine, EndLine>>
    /\ blockStack = <<>>
    /\ depth = 0
    /\ nodes[1].range.end = <<3, 3>>

\* C23: a line that creates a node appends it to the children of the node
\* owning the top-of-stack frame exactly when the stack is non-empty and the
\* node is a Function or an Enum, and to the top-level array in every other
\* case (empty stack, or a Class, Struct or Constant at any nesting); nothing
\* else is attached anywhere.
C23_Placement ==
    [][(opc = "scan" /\ i' = i + 1 /\ Len(nodes') = Len(nodes) + 1) =>
          LET id == Len(nodes')
              attaches == blockStack # <<>> /\ nodes'[id].kind \in {"Function", "Enum"}
              owner == blockStack[Len(blockStack)].symbol
          IN  /\ nodes'[id].kind \in {"Function", "Enum", "Class", "Struct", "Constant"}
              /\ attaches =>
                     /\ nodes'[owner].children = Append(nodes[owner].children, id)
                     /\ symbols' = symbols
                     /\ \A n \in 1..Len(nodes) :
                            n # owner => nodes'[n].children = nodes[n].children
              /\ ~attaches =>
                     /\ symbols' = Append(symbols, id)
                     /\ \A n \in 1..Len(nodes) : nodes'[n].children = nodes[n].children]_vars

\* C23 witness: a struct defined inside a struct went to the top level, and
\* a function defined inside it was attached to the inner struct
C23_Witness ==
    /\ i = 3
    /\ lines = <<StructLine, StructLine, <<"d","e","f"," ","f">>>>
    /\ symbols = <<1, 2>>
    /\ nodes[2].kind = "Struct"
    /\ nodes[1].children = <<>>
    /\ nodes[2].children = <<3>>
    /\ Len(blockStack) = 3

\* the node ids met when the forest under ids is walked, in order, with
\* repetitions
RECURSIVE Walk(_, _)
Walk(ns, ids) ==
    IF ids = <<>> THEN <<>>
    ELSE <<Head(ids)>> \o Walk(ns, ns[Head(ids)].children) \o Walk(ns, Tail(ids))

\* the 0-based numbers of the lines of ls that match a defining pattern
MatchingLines(ls) == { n \in 0..(Len(ls) - 1) : FirstMatch(ls[n + 1]).ok }

\* C24: the lines scanned so far that match a defining pattern have one node
\* each and the other lines none, and in the returned forest every node is
\* reached exactly once, so the forest has as many nodes as the text has
\* matching lines.
C24_OneNodePerMatchingLine ==
    LET matching == MatchingLines(lines)
        walk == Walk(nodes, symbols)
    IN  /\ \A n \in 0..(i - 1) :
              Cardinality({ id \in 1..Len(nodes) : StartLine(id) = n })
                  = IF n \in matching THEN 1 ELSE 0
        /\ Len(nodes) = Cardinality({ n \in matching : n < i })
        /\ opc = "done" =>
              /\ Len(walk) = Cardinality(matching)
              /\ \A id \in 1..Len(nodes) :
                     Cardinality({ w \in 1..Len(walk) : walk[w] = id }) = 1

\* C24 witness: a returned forest of three nodes, nested and top-level, of a
\* text that also has a line matching no pattern
C24_Witness ==
    /\ opc = "done"
    /\ Cardinality(MatchingLines(lines)) = 3
    /\ Len(lines) = 4
    /\ Len(symbols) = 2
    /\ \E id \in 1..Len(nodes) : Len(nodes[id].children) = 1

\* the recorded depths increase strictly from the bottom to the top of the
\* stack, and the current depth is greater than the top frame's
StackOrdered(stack, d) ==
    /\ \A f, g \in 1..Len(stack) : f < g => stack[f].depth < stack[g].depth
    /\ stack # <<>> => d > stack[Len(stack)].depth

\* C25: after every processed line the stack is ordered as above; hence a
\* line pops at most one frame, the top one, exactly when it is an end that
\* brings the depth back to that frame's recorded depth, and a node's range
\* is rewritten only while it still has its provisional end, at most once.
C25_StackInvariant ==
    [][(opc = "scan" /\ i' = i + 1) =>
          /\ StackOrdered(blockStack', depth')
          /\ Len(blockStack') >= Len(blockStack) - 1
          /\ blockStack # <<>> =>
                 LET top == blockStack[Len(blockStack)]
                 IN  /\ ~FrameIn(blockStack', top.symbol) <=>
                            (ClosesBlock(Trim(lines[i + 1])) /\ depth' = top.depth)
                     /\ ~FrameIn(blockStack', top.symbol) =>
                            blockStack' = SubSeq(blockStack, 1, Len(blockStack) - 1)
          /\ \A id \in 1..Len(nodes) :
                 nodes'[id].range # nodes[id].range =>
                     /\ nodes[id].range = nodes[id].selectionRange
                     /\ FrameIn(blockStack, id) /\ ~FrameIn(blockStack', id)]_vars

\* C25 witness: a class, an if block and a method in it: the method's end
\* brought the depth back to 2, the method's recorded depth, and popped only
\* the method's frame
C25_Witness ==
    /\ i = 4
    /\ lines = <<ClassLine, <<"i","f"," ","x">>, <<"d","e","f"," ","f">>, EndLine>>
    /\ blockStack = << [symbol |-> 1, depth |-> 0] >>
    /\ depth = 2
    /\ nodes[2].range.end = <<3, 3>>

-----------------------------------------------------------------------------
(* Further properties of the diagnostic locator.                           *)

\* C18 (as claimed): the message of every diagnostic is trimmed, it has no
\* leading and no trailing white space, in the bracketed form as in the
\* other forms.
C18_MessageTrimmed ==
    \A n \in 1..Len(diagnostics) : diagnostics[n].message = Trim(diagnostics[n].message)

\* C20 (as claimed): for every error line the fallback parser of the LSP-aware
\* variant pushes a diagnostic with the line, column and message the
\* standalone parser gives for that line; a prose "line N" is at line N-1.
C20_FallbackLikeStandalone ==
    (Handled /\ variant = "lsp") =>
        LET standalone == LocateStandalone(handledLine)
        IN  /\ pushed.line = standalone.line
            /\ pushed.col = standalone.col
            /\ pushed.message = standalone.message

-----------------------------------------------------------------------------
(* Further properties of the diagnostics lifecycle.                        *)

\* C12: when the callback of a run for a document fires, the document's
\* stored diagnostics become exactly those located from that run's error text
\* (none when the run succeeded or wrote no error text), whatever was stored
\* before, and the entries of the other documents are unchanged. (While the
\* extension is active: a callback that fires after deactivate finds the
\* collection disposed.)
C12_HandOff ==
    [][\A id \in inflight :
          (Active /\ inflight' = inflight \ {id}) =>
              LET uri == runs[id].uri
                  o == runs[id].outcome
              IN  /\ uri \in DOMAIN collection'
                  /\ collection'[uri] = Locate(variant, o.error, o.stderr)
                  /\ (~o.error \/ o.stderr = <<>>) => collection'[uri] = <<>>
                  /\ \A u \in Uris \ {uri} :
                         /\ u \in DOMAIN collection' <=> u \in DOMAIN collection
                         /\ u \in DOMAIN collection => collection'[u] = collection[u]]_vars

\* C12 witness: both runs of a document have completed, the first one failed
\* and the second succeeded, and the document's entry is the empty list: the
\* second run's result replaced the first one's
C12_Witness ==
    \E uri \in Uris :
        /\ RunsOf(uri) = {1, 2}
        /\ inflight = {}
        /\ runs[1].outcome.error /\ runs[1].outcome.stderr # <<>>
        /\ ~runs[2].outcome.error
        /\ uri \in DOMAIN collection
        /\ collection[uri] = <<>>

\* C13 (as claimed): a run cut short by the timeout or by the output-buffer
\* cap leaves its document with no diagnostics when its callback fires,
\* whatever part of the error text was captured (while the extension is
\* active).
C13_CutShortRunLeavesNoDiagnostics ==
    [][\A id \in inflight :
          (Active /\ inflight' = inflight \ {id} /\ runs[id].outcome.cut # "none") =>
              (runs[id].uri \in DOMAIN collection' => collection'[runs[id].uri] = <<>>)]_vars

\* C14: in the standalone variant, a step in which runDiagnostics runs for a
\* vibe document while diagnostics are disabled leaves the document without
\* stored diagnostics and starts no run.
C14_DisabledDeletesAndStartsNoRun ==
    [][\A uri \in Uris, o \in Outcomes :
          (languageId(uri) = "vibe" /\ ~enableDiagnostics /\ runDiagnostics(uri, o)) =>
              /\ uri \notin DOMAIN collection'
              /\ runs' = runs
              /\ inflight' = inflight]_vars

\* C14 witness: diagnostics are disabled and a document whose runs have all
\* completed was saved or opened after that (it is open and its entry was
\* deleted since its last run was triggered), and it has no entry
C14_Witness ==
    /\ ~enableDiagnostics
    /\ \E uri \in Uris :
          /\ languageId(uri) = "vibe"
          /\ RunsOf(uri) # {}
          /\ RunsOf(uri) \cap inflight = {}
          /\ \E id \in RunsOf(uri) : runs[id].outcome.stderr # <<>>
          /\ cleared[uri] /\ ~closed[uri]
          /\ uri \notin DOMAIN collection

-----------------------------------------------------------------------------
(* Properties of the activation.                                           *)

\* C21: a started language client and registered fallback providers never
\* coexist; after activate has completed, each fallback provider (completion,
\* hover, document symbols, on-save diagnostics) is registered if and only if
\* no language client was started, and vibe.run is registered in both cases.
\* (client is "undefined" until a client is started; deactivate stops a
\* started client and leaves what activate registered as it was.)
C21_FallbackIffNoClient ==
    /\ ~(client # "undefined" /\ registered \cap FallbackProviders # {})
    /\ apc \in {"done", "deactivated"} =>
          /\ \A p \in FallbackProviders : p \in registered <=> client = "undefined"
          /\ "vibe.run" \in registered

\* C21 witness: activate has completed with no binary on the PATH and one
\* under ~/.vibe/bin: the client is started, only vibe.run is registered
C21_Witness ==
    /\ apc = "done"
    /\ installed = {"home"}
    /\ client = "started"
    /\ registered = {"vibe.run"}

====
